---- MODULE Spec2Model ----
(***************************************************************************)
(* Model of simulapc.cpp: CircularQueueMonitor (a circular queue of        *)
(* dynamic size guarded by one mutex and two condition variables), the     *)
(* producer and consumer threads, and main, which starts the threads,      *)
(* joins the producers, calls set_producers_done and joins the consumers.  *)
(*                                                                         *)
(* Every statement that runs under the mutex is one step of the thread     *)
(* that holds it; the steps of one call are lock, wait, body, resize       *)
(* check, notify-and-return.  C++ index j of buffer is index j + 1 here.   *)
(* capacity, front, rear and count are size_t; no run explored here comes  *)
(* near its width, so they are integers.                                   *)
(***************************************************************************)
EXTENDS Integers, Sequences, FiniteSets, TLC

\* ------------------------------------------------------------------ bounds
\* num_producers, num_consumers and initial_queue_size are inputs of main
\* (-p, -c, -s); Init draws them from 1..MaxProducers, 1..MaxConsumers and
\* 1..MaxInitCapacity.  items_per_producer is 100 in main (line 188); the
\* runs explored here produce 1..MaxItems items per producer.  One run has
\* at most MaxThreads workers and MaxTotalItems items.
MaxProducers == 2
MaxConsumers == 2
MaxItems == 2
MaxThreads == 4
MaxTotalItems == 4
MaxInitCapacity == 3
\* std::condition_variable may wake a waiter spuriously; at most this many
\* spurious wakeups are explored in one run.
MaxSpurious == 1

VARIABLES
    num_producers,      \* main: num_producers
    num_consumers,      \* main: num_consumers
    items_per_producer, \* main: items_per_producer
    buffer,             \* CircularQueueMonitor::buffer
    capacity,           \* CircularQueueMonitor::capacity
    front,              \* CircularQueueMonitor::front
    rear,               \* CircularQueueMonitor::rear
    count,              \* CircularQueueMonitor::count
    producers_done,     \* CircularQueueMonitor::producers_done
    mtx,                \* CircularQueueMonitor::mtx: the thread that holds it
    not_full,           \* threads blocked in not_full.wait
    not_empty,          \* threads blocked in not_empty.wait
    log_file,           \* the capacities written to log_file, in order
    pc,                 \* the position of every thread
    i,                  \* producer_function: the loop variable i
    spurious,           \* number of spurious wakeups so far
    \* history variables, read by no action guard
    owner,              \* for every slot of buffer, the producer that wrote it
    enqLog,             \* <<producer, value>> of every insertion, in order
    deqLog,             \* <<producer, value>> of every removal, in order
    opCap,              \* capacity when the mutex was last acquired
    opContent,          \* queue content when the mutex was last acquired
    fill                \* the run of insertions since the queue was last empty

params == <<num_producers, num_consumers, items_per_producer>>
\* what resize assigns
store == <<buffer, owner, capacity, front, rear, log_file>>
waiters == <<not_full, not_empty>>
lockState == <<mtx, opCap, opContent>>
vars == <<num_producers, num_consumers, items_per_producer, buffer, capacity,
          front, rear, count, producers_done, mtx, not_full, not_empty,
          log_file, pc, i, spurious, owner, enqLog, deqLog, opCap, opContent,
          fill>>

\* ----------------------------------------------------------------- threads
MainThread == <<"main", 0>>
NoThread == <<"none", 0>>
Producer(k) == <<"producer", k>>
Consumer(k) == <<"consumer", k>>
Producers == {Producer(k) : k \in 1..num_producers}
Consumers == {Consumer(k) : k \in 1..num_consumers}
Threads == Producers \cup Consumers \cup {MainThread}

\* ------------------------------------------------------------ the monitor
\* The logical content: n elements of buf read from f, wrapping at cap.
Content(buf, f, n, cap) == [k \in 1..n |-> buf[((f + (k - 1)) % cap) + 1]]

QueueValues == Content(buffer, front, count, capacity)
QueueOwners == Content(owner, front, count, capacity)

\* QueueItems pairs every queued value with the producer that inserted it.
QueueItems == [k \in 1..count |-> <<QueueOwners[k], QueueValues[k]>>]

\* A resize that copies from index 0 instead of from front.
ResizeBuffer_IgnoreFront(buf, new_capacity) ==
    [k \in 1..new_capacity |-> IF k <= count THEN buf[k] ELSE 0]

\* resize, lines 30-35: new_buffer is value-initialised (zeros) and receives
\* the count valid elements of buf, read from front, at indices 0..count-1.
ResizeBuffer(buf, new_capacity) ==
    [k \in 1..new_capacity |->
        IF k <= count THEN buf[((front + (k - 1)) % capacity) + 1] ELSE 0]

\* A resize that leaves rear where it was.
resize_StaleRear(new_capacity) ==
    /\ buffer' = ResizeBuffer(buffer, new_capacity)
    /\ owner' = ResizeBuffer(owner, new_capacity)
    /\ capacity' = new_capacity
    /\ front' = 0
    /\ rear' = rear % new_capacity
    /\ log_file' = Append(log_file, new_capacity)

\* A resize that logs the capacity it replaces.
resize_LogsOld(new_capacity) ==
    /\ buffer' = ResizeBuffer(buffer, new_capacity)
    /\ owner' = ResizeBuffer(owner, new_capacity)
    /\ capacity' = new_capacity
    /\ front' = 0
    /\ rear' = count % new_capacity
    /\ log_file' = Append(log_file, capacity)

\* A resize that does not reset front.
resize_KeepFront(new_capacity) ==
    /\ buffer' = ResizeBuffer(buffer, new_capacity)
    /\ owner' = ResizeBuffer(owner, new_capacity)
    /\ capacity' = new_capacity
    /\ front' = front % new_capacity
    /\ rear' = count % new_capacity
    /\ log_file' = Append(log_file, new_capacity)

\* resize, lines 37-43.
resize(new_capacity) ==
    /\ buffer' = ResizeBuffer(buffer, new_capacity)
    /\ owner' = ResizeBuffer(owner, new_capacity)
    /\ capacity' = new_capacity
    /\ front' = 0
    /\ rear' = count % new_capacity
    /\ log_file' = Append(log_file, new_capacity)

\* enqueue, line 58: the predicate of not_full.wait.
EnqueueCanProceed == count < capacity
\* A growth one insertion before the buffer is full.
GrowNeeded_Early == count + 1 = capacity
\* A growth only once count has passed capacity.
GrowNeeded_Overfull == count > capacity
\* enqueue, line 66.
GrowNeeded == count = capacity
\* A growth by one slot.
GrowCapacity_PlusOne == capacity + 1
\* enqueue, line 67.
GrowCapacity == capacity * 2
\* A wait loop that does not look at producers_done.
DequeueMustWait_IgnoreDone == count = 0
\* dequeue, line 78: the condition of the wait loop.
DequeueMustWait == count = 0 /\ ~producers_done
\* A dequeue without its end-of-stream return.
DequeueNoItem_Never == FALSE
\* An end-of-stream test that does not look at count.
DequeueNoItem_IgnoreCount == producers_done
\* dequeue, line 83.
DequeueNoItem == count = 0 /\ producers_done
\* A shrink below 25%, not at 25%.
ShrinkNeeded_Strict == capacity > 1 /\ count < capacity \div 4
\* dequeue, line 93.
ShrinkNeeded == capacity > 1 /\ count <= capacity \div 4
\* dequeue, line 94.
ShrinkCapacity == capacity \div 2

\* condition_variable::notify_one: the sets of threads it may wake.
NotifyOne(blocked) == IF blocked = {} THEN {{}} ELSE {{w} : w \in blocked}
\* A notify_all that wakes one thread only.
NotifyAll_One(blocked) == IF blocked = {} THEN {{}} ELSE {{w} : w \in blocked}
\* condition_variable::notify_all.
NotifyAll(blocked) == {blocked}

\* Where a thread that leaves its wait goes on: wait returns once the thread
\* holds the mutex again, and the wait condition (line 58, line 78) is
\* tested again; that is the position of a thread about to lock and test.
AfterWait(t) == IF t[1] = "producer" THEN "enq_lock" ELSE "deq_lock"

\* The position of every thread after `self` goes to `next` and the threads
\* of `woken` leave their wait.
Moved(self, next, woken) ==
    [t \in DOMAIN pc |->
        IF t = self THEN next ELSE IF t \in woken THEN AfterWait(t) ELSE pc[t]]

Goto(self, next) == pc' = Moved(self, next, {})

\* A lock that is taken whether or not another thread holds it.
Acquire_Barging(self) ==
    /\ mtx' = self
    /\ opCap' = capacity
    /\ opContent' = QueueItems

\* unique_lock<mutex> lock(mtx), and the reacquisition that ends a wait.
Acquire(self) ==
    /\ mtx = NoThread
    /\ mtx' = self
    /\ opCap' = capacity
    /\ opContent' = QueueItems

\* The unique_lock's destructor, and the release that starts a wait.
Release ==
    /\ mtx' = NoThread
    /\ opCap' = 0
    /\ opContent' = <<>>

NoFill == [cap |-> 0, n |-> 0, first |-> <<0, 0>>, logLen |-> 0]

\* The history variables owner, enqLog, deqLog and fill are kept in runs of
\* at most MaxTotalItems items; a longer run leaves them as they start.
Recording == num_producers * items_per_producer <= MaxTotalItems

\* ------------------------------------------------------------------- Init
\* The monitor's constructor (line 51) and the threads main creates (lines
\* 191-198), every one at the start of its function.
Constructed ==
    /\ buffer = [k \in 1..capacity |-> 0]
    /\ owner = [k \in 1..capacity |-> 0]
    /\ front = 0
    /\ rear = 0
    /\ count = 0
    /\ producers_done = FALSE
    /\ mtx = NoThread
    /\ not_full = {}
    /\ not_empty = {}
    /\ log_file = <<>>
    /\ pc = [t \in Threads |->
                IF t \in Producers
                    THEN (IF 0 < items_per_producer THEN "enq_lock" ELSE "done")
                ELSE IF t \in Consumers THEN "deq_lock"
                ELSE "join_producers"]
    /\ i = [p \in Producers |-> 0]
    /\ spurious = 0
    /\ enqLog = <<>>
    /\ deqLog = <<>>
    /\ opCap = 0
    /\ opContent = <<>>
    /\ fill = IF Recording
              THEN [cap |-> capacity, n |-> 0, first |-> <<0, 0>>, logLen |-> 0]
              ELSE NoFill

\* main, lines 153-198: the parameters, then the monitor and the threads.
Init ==
    /\ num_producers \in 1..MaxProducers
    /\ num_consumers \in 1..MaxConsumers
    /\ items_per_producer \in 1..MaxItems
    /\ num_producers + num_consumers <= MaxThreads
    /\ num_producers * items_per_producer <= MaxTotalItems
    /\ capacity \in 1..MaxInitCapacity
    /\ Constructed

\* The run of the specification's worked example: a monitor of capacity 4,
\* two producers of five items each (producer_function(5)) and one
\* consumer.
ScenarioInit ==
    /\ num_producers = 2
    /\ num_consumers = 1
    /\ items_per_producer = 5
    /\ capacity = 4
    /\ Constructed

\* ---------------------------------------------------------------- enqueue
\* line 55, and the end of a wait of line 58
EnqLock(p) ==
    /\ pc[p] = "enq_lock"
    /\ Acquire(p)
    /\ Goto(p, "enq_wait")
    /\ UNCHANGED <<params, store, count, producers_done, waiters, i, spurious,
                   enqLog, deqLog, fill>>

\* line 58: not_full.wait(lock, pred) returns when pred holds, else it
\* releases the mutex and blocks.
EnqWait(p) ==
    /\ pc[p] = "enq_wait"
    /\ mtx = p
    /\ IF EnqueueCanProceed
          THEN /\ Goto(p, "enq_insert")
               /\ UNCHANGED <<lockState, waiters>>
          ELSE /\ Goto(p, "cv_waiting")
               /\ not_full' = not_full \cup {p}
               /\ Release
               /\ UNCHANGED not_empty
    /\ UNCHANGED <<params, store, count, producers_done, i, spurious, enqLog,
                   deqLog, fill>>

\* lines 61-63
EnqInsert(p) ==
    /\ pc[p] = "enq_insert"
    /\ mtx = p
    /\ buffer' = [buffer EXCEPT ![rear + 1] = i[p]]
    /\ owner' = IF Recording THEN [owner EXCEPT ![rear + 1] = p[2]] ELSE owner
    /\ rear' = (rear + 1) % capacity
    /\ count' = count + 1
    /\ enqLog' = IF Recording THEN Append(enqLog, <<p[2], i[p]>>) ELSE enqLog
    /\ fill' = IF fill.cap = 0 THEN fill
               ELSE [fill EXCEPT !.n = @ + 1,
                                 !.first = IF fill.n = 0 THEN <<p[2], i[p]>> ELSE @]
    /\ Goto(p, "enq_grow")
    /\ UNCHANGED <<params, capacity, front, log_file, producers_done, lockState,
                   waiters, i, spurious, deqLog>>

\* lines 66-68
EnqGrow(p) ==
    /\ pc[p] = "enq_grow"
    /\ mtx = p
    /\ IF GrowNeeded THEN resize(GrowCapacity) ELSE UNCHANGED store
    /\ Goto(p, "enq_notify")
    /\ UNCHANGED <<params, count, producers_done, lockState, waiters, i,
                   spurious, enqLog, deqLog, fill>>

\* lines 70-71, and producer_function's lines 111-115: notify, return (the
\* mutex is released), ++i and the loop test.
EnqNotify(p) ==
    /\ pc[p] = "enq_notify"
    /\ mtx = p
    /\ i' = [i EXCEPT ![p] = @ + 1]
    /\ \E woken \in NotifyOne(not_empty) :
          /\ not_empty' = not_empty \ woken
          /\ pc' = Moved(p, IF i'[p] < items_per_producer THEN "enq_lock" ELSE "done",
                         woken)
    /\ Release
    /\ UNCHANGED <<params, store, count, producers_done, not_full, spurious,
                   enqLog, deqLog, fill>>

\* ---------------------------------------------------------------- dequeue
\* line 75, and the end of a wait of line 79
DeqLock(c) ==
    /\ pc[c] = "deq_lock"
    /\ Acquire(c)
    /\ Goto(c, "deq_wait")
    /\ UNCHANGED <<params, store, count, producers_done, waiters, i, spurious,
                   enqLog, deqLog, fill>>

\* lines 78-85: one test of the wait loop; when the loop ends, the test of
\* line 83, which returns false (releasing the mutex) or goes on.
DeqWait(c) ==
    /\ pc[c] = "deq_wait"
    /\ mtx = c
    /\ IF DequeueMustWait
          THEN /\ Goto(c, "cv_waiting")
               /\ not_empty' = not_empty \cup {c}
               /\ Release
               /\ UNCHANGED not_full
          ELSE IF DequeueNoItem
          THEN /\ Goto(c, "deq_false")
               /\ Release
               /\ UNCHANGED waiters
          ELSE /\ Goto(c, "deq_remove")
               /\ UNCHANGED <<lockState, waiters>>
    /\ UNCHANGED <<params, store, count, producers_done, i, spurious, enqLog,
                   deqLog, fill>>

\* lines 88-90: item = buffer[front] is recorded in deqLog.
DeqRemove(c) ==
    /\ pc[c] = "deq_remove"
    /\ mtx = c
    /\ deqLog' = IF Recording
                 THEN Append(deqLog, <<owner[front + 1], buffer[front + 1]>>)
                 ELSE deqLog
    /\ front' = (front + 1) % capacity
    /\ count' = count - 1
    /\ fill' = NoFill
    /\ Goto(c, "deq_shrink")
    /\ UNCHANGED <<params, buffer, owner, capacity, rear, log_file,
                   producers_done, lockState, waiters, i, spurious, enqLog>>

\* lines 93-95
DeqShrink(c) ==
    /\ pc[c] = "deq_shrink"
    /\ mtx = c
    /\ IF ShrinkNeeded THEN resize(ShrinkCapacity) ELSE UNCHANGED store
    /\ fill' = IF count = 0 /\ Recording
               THEN [cap |-> capacity', n |-> 0, first |-> <<0, 0>>,
                     logLen |-> Len(log_file')]
               ELSE NoFill
    /\ Goto(c, "deq_notify")
    /\ UNCHANGED <<params, count, producers_done, lockState, waiters, i,
                   spurious, enqLog, deqLog>>

\* lines 97-98, and consumer_function's lines 124-130: notify, return true
\* (the mutex is released), and the loop calls dequeue again.
DeqNotify(c) ==
    /\ pc[c] = "deq_notify"
    /\ mtx = c
    /\ \E woken \in NotifyOne(not_full) :
          /\ not_full' = not_full \ woken
          /\ pc' = Moved(c, "deq_lock", woken)
    /\ Release
    /\ UNCHANGED <<params, store, count, producers_done, not_empty, i, spurious,
                   enqLog, deqLog, fill>>

\* consumer_function, lines 131-147: dequeue returned false.  The flag is
\* read without the mutex; the elapsed time is an input.
ConsumerAfterFalse(c) ==
    /\ pc[c] = "deq_false"
    /\ IF producers_done
          THEN Goto(c, "exited")
          ELSE \E timed_out \in BOOLEAN :
                  Goto(c, IF timed_out THEN "exited" ELSE "deq_lock")
    /\ UNCHANGED <<params, store, count, producers_done, lockState, waiters, i,
                   spurious, enqLog, deqLog, fill>>

\* ----------------------------------------------- the condition variables
\* A wait may end without a notification.
SpuriousWakeup(t) ==
    /\ spurious < MaxSpurious
    /\ t \in not_full \cup not_empty
    /\ spurious' = spurious + 1
    /\ not_full' = not_full \ {t}
    /\ not_empty' = not_empty \ {t}
    /\ Goto(t, AfterWait(t))
    /\ UNCHANGED <<params, store, count, producers_done, lockState, i, enqLog,
                   deqLog, fill>>

\* ------------------------------------------------------------------- main
\* A coordinator that goes on as soon as one producer has finished.
JoinProducers_Any ==
    /\ pc[MainThread] = "join_producers"
    /\ \E p \in Producers : pc[p] = "done"
    /\ Goto(MainThread, "done_lock")
    /\ UNCHANGED <<params, store, count, producers_done, lockState, waiters, i,
                   spurious, enqLog, deqLog, fill>>

\* lines 201-203
JoinProducers ==
    /\ pc[MainThread] = "join_producers"
    /\ \A p \in Producers : pc[p] = "done"
    /\ Goto(MainThread, "done_lock")
    /\ UNCHANGED <<params, store, count, producers_done, lockState, waiters, i,
                   spurious, enqLog, deqLog, fill>>

\* set_producers_done, line 103
SetDoneLock ==
    /\ pc[MainThread] = "done_lock"
    /\ Acquire(MainThread)
    /\ Goto(MainThread, "done_set")
    /\ UNCHANGED <<params, store, count, producers_done, waiters, i, spurious,
                   enqLog, deqLog, fill>>

\* set_producers_done, lines 104-106
SetProducersDone ==
    /\ pc[MainThread] = "done_set"
    /\ mtx = MainThread
    /\ producers_done' = TRUE
    /\ \E woken \in NotifyAll(not_empty) :
          /\ not_empty' = not_empty \ woken
          /\ pc' = Moved(MainThread, "join_consumers", woken)
    /\ Release
    /\ UNCHANGED <<params, store, count, not_full, i, spurious, enqLog, deqLog,
                   fill>>

\* lines 209-214
JoinConsumers ==
    /\ pc[MainThread] = "join_consumers"
    /\ \A c \in Consumers : pc[c] = "exited"
    /\ Goto(MainThread, "done")
    /\ UNCHANGED <<params, store, count, producers_done, lockState, waiters, i,
                   spurious, enqLog, deqLog, fill>>

\* ------------------------------------------------------ the specification
Workers == Producers \cup Consumers

Next ==
    \/ \E p \in Producers : EnqLock(p)
    \/ \E p \in Producers : EnqWait(p)
    \/ \E p \in Producers : EnqInsert(p)
    \/ \E p \in Producers : EnqGrow(p)
    \/ \E p \in Producers : EnqNotify(p)
    \/ \E c \in Consumers : DeqLock(c)
    \/ \E c \in Consumers : DeqWait(c)
    \/ \E c \in Consumers : DeqRemove(c)
    \/ \E c \in Consumers : DeqShrink(c)
    \/ \E c \in Consumers : DeqNotify(c)
    \/ \E c \in Consumers : ConsumerAfterFalse(c)
    \/ \E t \in Workers : SpuriousWakeup(t)
    \/ JoinProducers
    \/ SetDoneLock
    \/ SetProducersDone
    \/ JoinConsumers

Spec == Init /\ [][Next]_vars

\* The worked example's runs.
ScenarioSpec == ScenarioInit /\ [][Next]_vars

\* What one thread can do.
ThreadStep(t) ==
    /\ t \in Workers
    /\ \/ EnqLock(t) \/ EnqWait(t) \/ EnqInsert(t) \/ EnqGrow(t) \/ EnqNotify(t)
       \/ DeqLock(t) \/ DeqWait(t) \/ DeqRemove(t) \/ DeqShrink(t) \/ DeqNotify(t)
       \/ ConsumerAfterFalse(t)

MainStep == JoinProducers \/ SetDoneLock \/ SetProducersDone \/ JoinConsumers

\* Fair scheduling: a thread that can take a step does not wait forever.
\* Spurious wakeups are not owed to anyone.
FairSpec ==
    /\ Spec
    /\ \A k \in 1..MaxProducers : WF_vars(ThreadStep(Producer(k)))
    /\ \A k \in 1..MaxConsumers : WF_vars(ThreadStep(Consumer(k)))
    /\ WF_vars(MainStep)

\* ----------------------------------------------------------------- claims
LockFree == mtx = NoThread

\* C1: whenever the lock is free, 0 <= count <= capacity; and capacity is at
\* least 1 in every state.
C1_CountWithinCapacity ==
    /\ capacity >= 1
    /\ LockFree => (0 <= count /\ count <= capacity)

\* The lock is free after enqueues, dequeues and set_producers_done, with
\* items still queued.
C1_Witness ==
    /\ LockFree
    /\ producers_done
    /\ deqLog # <<>>
    /\ count > 0

AllProducersFinished == \A p \in Producers : pc[p] = "done"
AllConsumersDrained == \A c \in Consumers : pc[c] \in {"deq_false", "exited"}

\* C2: once every producer has finished, producers_done is set and every
\* consumer has been told 'no item', as many items were dequeued as were
\* enqueued, namely num_producers * items_per_producer, and count is 0.
C2_NoLoss ==
    (AllProducersFinished /\ producers_done /\ AllConsumersDrained)
        => /\ Len(deqLog) = Len(enqLog)
           /\ Len(enqLog) = num_producers * items_per_producer
           /\ count = 0

C2_Witness ==
    /\ AllProducersFinished /\ producers_done /\ AllConsumersDrained
    /\ num_producers = 2
    /\ items_per_producer = 2
    /\ num_consumers = 2
    /\ Len(deqLog) = 4

\* C3: every dequeued item was stored by an enqueue, and no stored item is
\* dequeued twice (an item is the pair of its producer and its value).
C3_ExactlyOnce ==
    /\ \A j \in 1..Len(deqLog) :
          \E k \in 1..Len(enqLog) : enqLog[k] = deqLog[j]
    /\ \A j, k \in 1..Len(deqLog) : deqLog[j] = deqLog[k] => j = k

\* Items of two producers were dequeued after a growth and a shrink.
C3_Witness ==
    /\ \E j, k \in 1..Len(deqLog) : deqLog[j][1] # deqLog[k][1]
    /\ \E j, k \in 1..Len(log_file) : j < k /\ log_file[j] > log_file[k]
    /\ Len(deqLog) >= 3

ItemsOf(log, k) == SelectSeq(log, LAMBDA e : e[1] = k)

IsPrefix(s, t) == Len(s) <= Len(t) /\ \A j \in 1..Len(s) : s[j] = t[j]

\* C4: the items of one producer are dequeued in the order in which that
\* producer enqueued them, none skipped.
C4_PerProducerFifo ==
    \A k \in 1..num_producers : IsPrefix(ItemsOf(deqLog, k), ItemsOf(enqLog, k))

\* Two items of one producer were dequeued, with an item of another
\* producer and a resize in the run.
C4_Witness ==
    /\ \E k \in 1..num_producers : Len(ItemsOf(deqLog, k)) >= 2
    /\ \E j, k \in 1..Len(deqLog) : deqLog[j][1] # deqLog[k][1]
    /\ Len(log_file) >= 2

\* Consumer c holds the lock in dequeue, at the test of lines 78-85, with
\* producers_done set and the queue empty.
AtEndOfStream(c) ==
    /\ pc[c] = "deq_wait"
    /\ mtx = c
    /\ producers_done
    /\ count = 0

\* C5: a dequeue that finds producers_done set and count = 0 returns 'no
\* item' without waiting on not_empty and leaves front, rear, count and
\* capacity as they were.
C5_EndOfStream ==
    [][\A c \in Consumers :
          (AtEndOfStream(c) /\ pc'[c] # pc[c])
              => /\ pc'[c] = "deq_false"
                 /\ c \notin not_empty'
                 /\ UNCHANGED <<front, rear, count, capacity>>]_vars

\* After two removals, a consumer holds the lock at the test at end of stream.
C5_Witness ==
    \E c \in Consumers : AtEndOfStream(c) /\ spurious = 0 /\ Len(deqLog) >= 2

\* C6: when the queue was empty with capacity C and n enqueues followed with
\* no dequeue between them, then whenever the lock is free: for n < C the
\* capacity is still C and nothing was logged; for n = C the capacity is
\* 2C, reached by one resize; count is n; and the item at front, the one the
\* next dequeue returns, is the first one inserted.
C6_GrowthTrigger ==
    (LockFree /\ fill.cap # 0 /\ fill.n <= fill.cap)
        => /\ count = fill.n
           /\ fill.n < fill.cap
                 => capacity = fill.cap /\ Len(log_file) = fill.logLen
           /\ fill.n = fill.cap
                 => /\ capacity = 2 * fill.cap
                    /\ Len(log_file) = fill.logLen + 1
                    /\ log_file[Len(log_file)] = 2 * fill.cap
           /\ fill.n >= 1 => <<owner[front + 1], buffer[front + 1]>> = fill.first

\* Producers filled a queue of initial capacity 3: the third enqueue has
\* returned and no dequeue has removed anything.
C6_Witness ==
    /\ LockFree
    /\ fill.cap = 3
    /\ fill.n = 3
    /\ deqLog = <<>>

\* At every state the items removed so far followed by the queued items are
\* the items inserted so far, in order.
QueueIsFifo == deqLog \o QueueItems = enqLog

\* C7: when a dequeue that ran with capacity C is about to return an item,
\* leaving count' items: if C > 1 and count' <= C \div 4 the capacity is
\* C \div 2, else it is C; the queue holds the items it held before but
\* the first, in the same order, and they are dequeued in that order.
C7_ShrinkTrigger ==
    /\ QueueIsFifo
    /\ \A c \in Consumers :
          pc[c] = "deq_notify"
              => /\ capacity = IF opCap > 1 /\ count <= opCap \div 4
                                  THEN opCap \div 2
                                  ELSE opCap
                 /\ opContent # <<>>
                 /\ QueueItems = Tail(opContent)

\* A dequeue halved a capacity of at least 4 with an item left.
C7_Witness ==
    \E c \in Consumers :
        /\ pc[c] = "deq_notify"
        /\ opCap >= 4
        /\ capacity = opCap \div 2
        /\ count >= 1

\* C8: from the moment a thread acquires the lock until it releases it, the
\* capacity is the one it found or, in enqueue, twice that, or, in dequeue,
\* half of that; in set_producers_done and up to the test of dequeue it is
\* the one found; no step taken with the lock free, and no release, changes
\* the capacity.
C8_PolicyAsymmetry ==
    [][/\ mtx' \in Producers => capacity' \in {opCap', 2 * opCap'}
       /\ mtx' \in Consumers => capacity' \in {opCap', opCap' \div 2}
       /\ mtx' = MainThread => capacity' = opCap'
       /\ (mtx' \in Consumers /\ pc'[mtx'] = "deq_wait") => capacity' = opCap'
       /\ mtx' = NoThread => capacity' = capacity]_vars

\* A dequeue halves the capacity after an enqueue doubled it and after
\* set_producers_done.
C8_Witness ==
    /\ \E c \in Consumers :
          pc[c] = "deq_notify" /\ opCap > 1 /\ capacity = opCap \div 2
    /\ \E j, k \in 1..Len(log_file) : j < k /\ log_file[j] < log_file[k]
    /\ producers_done

\* set_producers_done holds the lock, about to set the flag, while
\* consumers are blocked in not_empty.wait.
BlockedAtDone ==
    /\ pc[MainThread] = "done_set"
    /\ not_empty # {}

\* C9: once producers_done is set no consumer is left in not_empty's wait,
\* and when set_producers_done is called with consumers blocked in dequeue,
\* every consumer returns from dequeue: with items while there are some,
\* and in the end with false.
C9_DoneWakesAll ==
    /\ [](producers_done => not_empty = {})
    /\ BlockedAtDone ~> AllConsumersDrained

\* Two consumers are blocked in not_empty.wait when set_producers_done
\* holds the lock.
C9_Witness ==
    /\ pc[MainThread] = "done_set"
    /\ Cardinality(not_empty) >= 2
    /\ spurious = 0

Terminated ==
    /\ AllProducersFinished
    /\ producers_done
    /\ \A c \in Consumers : pc[c] = "exited"
    /\ pc[MainThread] = "done"

\* C10: under fair scheduling every run reaches the state in which every
\* producer has finished, producers_done is set, every consumer has exited
\* and main has joined them; so no thread blocks forever.
C10_ShutdownTerminates == <>Terminated

\* A run of two producers and two consumers in which a wait ended
\* spuriously has terminated.
C10_Witness ==
    /\ Terminated
    /\ num_producers = 2
    /\ num_consumers = 2
    /\ spurious = 1
    /\ Len(deqLog) = num_producers * items_per_producer

\* Some dequeue has returned false.
NoItemReturned == \E c \in Consumers : pc[c] \in {"deq_false", "exited"}

\* C11: producers_done is set only after every producer has returned from
\* its last enqueue, so no producer takes a step once producers_done is
\* true; and from the first dequeue that returned false on, the queue is
\* empty and stays empty.
C11_CoordinatorOrdering ==
    /\ [](producers_done => AllProducersFinished)
    /\ [][producers_done => \A p \in Producers : pc'[p] = pc[p]]_vars
    /\ [](NoItemReturned => count = 0)
    /\ [][NoItemReturned => count' = 0]_vars

\* Two producers have enqueued everything, the flag is set and a dequeue
\* has returned false while another consumer is still inside dequeue.
C11_Witness ==
    /\ producers_done
    /\ num_producers = 2
    /\ Len(enqLog) = num_producers * items_per_producer
    /\ \E c, d \in Consumers : pc[c] = "deq_false" /\ pc[d] = "deq_wait"

\* C12: a consumer can leave before set_producers_done: a dequeue that
\* finds the queue empty while producers_done is false can return false
\* (after which the idle timeout of consumer_function lets the consumer
\* exit).
C12_EarlyExitPossible ==
    \A c \in Consumers :
        (pc[c] = "deq_wait" /\ mtx = c /\ count = 0 /\ ~producers_done)
            => ENABLED (DeqWait(c) /\ pc'[c] = "deq_false")

\* The log holds a resize to capacity 8 or more.
ReachedEight == \E k \in 1..Len(log_file) : log_file[k] >= 8

\* C13 as stated: in the worked example (capacity 4, two producers of
\* values 0..4, one consumer) every execution takes capacity to at least 8
\* at some point; so every execution that has terminated has done so.
C13_EveryRunReachesEight == Terminated => ReachedEight

\* The step of enqueue that resizes a full buffer of capacity 4.
GrowsFullOfFour ==
    /\ capacity = 4
    /\ count = 4
    /\ \E p \in Producers : pc[p] = "enq_grow" /\ pc'[p] = "enq_notify"

\* C13, amended: in the worked example capacity passes from below 8 to 8 or
\* more in exactly the steps in which enqueue finds count = capacity = 4
\* after its insertion; an execution in which count never reaches 4 never
\* takes capacity to 8.
C13_EightOnlyWhenFull ==
    [][(capacity < 8 /\ capacity' >= 8) <=> GrowsFullOfFour]_vars

\* The worked example has terminated after a resize to 8.
C13_Witness ==
    /\ Terminated
    /\ num_producers = 2
    /\ items_per_producer = 5
    /\ \E k \in 1..Len(log_file) : log_file[k] = 8

\* The threads whose next statement reads producers_done: the wait
\* condition and the end-of-stream test of dequeue (lines 78, 83), and
\* consumer_function's test after a false return (line 133).
ReadsProducersDone(t) == pc[t] \in {"deq_wait", "deq_false"}
\* The thread whose next statement writes producers_done (line 104).
WritesProducersDone(t) == pc[t] = "done_set"

\* C14: every read and every write of producers_done, by any thread, is
\* done by a thread that holds the monitor's lock.
C14_DoneUnderLock ==
    \A t \in Threads :
        (ReadsProducersDone(t) \/ WritesProducersDone(t)) => mtx = t

\* The threads inside a critical section of the monitor: between the lock
\* of enqueue, dequeue or set_producers_done and its release.
InMonitor(t) ==
    pc[t] \in {"enq_wait", "enq_insert", "enq_grow", "enq_notify", "deq_wait",
               "deq_remove", "deq_shrink", "deq_notify", "done_set"}

\* C15: at most one thread is inside a critical section and it holds the
\* mutex; a thread waiting on not_full or not_empty does not hold it; and
\* capacity changes (resize) only in a step of the thread that holds the
\* mutex, inside enqueue or dequeue.
C15_MutualExclusion ==
    /\ [](Cardinality({t \in Threads : InMonitor(t)}) <= 1)
    /\ [](\A t \in Threads : InMonitor(t) => mtx = t)
    /\ [](\A t \in not_full \cup not_empty : pc[t] = "cv_waiting" /\ mtx # t)
    /\ [][capacity' # capacity =>
            /\ mtx \in Workers
            /\ mtx' = mtx
            /\ pc[mtx] \in {"enq_grow", "deq_shrink"}]_vars

\* A producer is about to resize the full buffer while a consumer waits on
\* not_empty and the other producer is at the lock.
C15_Witness ==
    /\ \E p, q \in Producers :
          pc[p] = "enq_grow" /\ GrowNeeded /\ pc[q] = "enq_lock"
    /\ not_empty # {}

\* C16: a step that resizes appends exactly one line, carrying the new
\* capacity, and a step that does not resize appends nothing; so the log is
\* the sequence of the capacities the monitor took after its construction,
\* in the order it took them, and its last line is the current capacity.
C16_LogOrdering ==
    /\ [][IF capacity' # capacity
            THEN log_file' = Append(log_file, capacity')
            ELSE log_file' = log_file]_vars
    /\ [](log_file # <<>> => log_file[Len(log_file)] = capacity)
    /\ [](\A k \in 1..Len(log_file) - 1 : log_file[k] # log_file[k + 1])

\* The log holds a growth and a shrink, three lines or more, and the
\* mutex is free.
C16_Witness ==
    /\ LockFree
    /\ Len(log_file) >= 3
    /\ \E k \in 1..Len(log_file) - 1 : log_file[k] < log_file[k + 1]
    /\ \E k \in 1..Len(log_file) - 1 : log_file[k] > log_file[k + 1]

\* The values that successful dequeues returned, in order.
DequeuedValues == [k \in 1..Len(deqLog) |-> deqLog[k][2]]

\* C17 as stated: whatever the number of producers, no two successful
\* dequeues of a run return the same item value.
C17_ValuesDistinct ==
    \A j, k \in 1..Len(deqLog) :
        DequeuedValues[j] = DequeuedValues[k] => j = k

\* C17, amended: every producer enqueues the values 0 .. items - 1 (line
\* 111), so a value is returned once per producer that enqueued it: no two
\* successful dequeues return the same value of the same producer, a value
\* is returned at most num_producers times, and with one producer the
\* returned values are distinct.
C17_DistinctPerProducer ==
    /\ \A k \in 1..num_producers :
          \A j, l \in 1..Len(ItemsOf(deqLog, k)) :
              ItemsOf(deqLog, k)[j] = ItemsOf(deqLog, k)[l] => j = l
    /\ \A v \in 0..(items_per_producer - 1) :
          Cardinality({k \in 1..Len(deqLog) : DequeuedValues[k] = v})
              <= num_producers
    /\ num_producers = 1 => C17_ValuesDistinct

\* Two producers: the value 0 of each one was dequeued, and so was the
\* value 1 of each one.
C17_Witness ==
    /\ num_producers = 2
    /\ \A v \in {0, 1} : \A k \in 1..2 : \E j \in 1..Len(deqLog) :
          deqLog[j] = <<k, v>>

\* C18: whenever the mutex is free, front and rear are in 0 .. capacity-1,
\* rear = (front + count) mod capacity, the buffer has capacity slots, and
\* the count slots read from front, wrapping, are the items enqueued and
\* not yet dequeued, in the order of their insertion.
C18_CircularBuffer ==
    LockFree =>
        /\ front \in 0..(capacity - 1)
        /\ rear \in 0..(capacity - 1)
        /\ rear = (front + count) % capacity
        /\ DOMAIN buffer = 1..capacity
        /\ QueueIsFifo

\* The mutex is free and the content wraps around the end of the buffer.
C18_Witness ==
    /\ LockFree
    /\ count >= 2
    /\ front > 0
    /\ rear < front

\* C19: a step that resizes leaves count and the content, in queue order,
\* unchanged; afterwards the content is in slots 0 .. count-1, front is 0,
\* rear is count mod the new capacity and the buffer has the new capacity
\* slots; and the new capacity, twice or half the old one, is at least
\* count.
C19_ResizePreserves ==
    [][capacity' # capacity =>
        /\ count' = count
        /\ QueueItems' = QueueItems
        /\ \A k \in 1..count :
              buffer'[k] = QueueValues[k] /\ owner'[k] = QueueOwners[k]
        /\ front' = 0
        /\ rear' = count % capacity'
        /\ DOMAIN buffer' = 1..capacity'
        /\ capacity' \in {2 * capacity, capacity \div 2}
        /\ count <= capacity']_vars

\* enqueue has just doubled a buffer of capacity 3 that was full with
\* front at 1: one item had been dequeued before.
C19_Witness ==
    /\ \E p \in Producers : pc[p] = "enq_notify"
    /\ opCap = 3
    /\ capacity = 6
    /\ count = 3
    /\ Len(deqLog) = 1

\* C20: dequeue returns false only with producers_done true and count 0,
\* and the consumer that got false then finds producers_done true at line
\* 133 and exits.
C20_NoItemOnlyWhenDone ==
    /\ [](\A c \in Consumers :
            pc[c] = "deq_false" => producers_done /\ count = 0)
    /\ [][\A c \in Consumers :
            pc[c] = "deq_false" /\ pc'[c] # "deq_false" => pc'[c] = "exited"]_vars

\* A consumer has exited after a false return and another one has just
\* got false.
C20_Witness ==
    \E c, d \in Consumers : pc[c] = "exited" /\ pc[d] = "deq_false"

\* C21: whenever the mutex is free count < capacity, because the enqueue
\* that fills the buffer doubles it before it releases the mutex; so no
\* producer ever waits on not_full; and a dequeue that removes the last
\* item runs with capacity >= 2 and halves it before it returns.
C21_NeverObservablyFull ==
    /\ [](LockFree => count < capacity)
    /\ [](not_full = {} /\ \A p \in Producers : pc[p] # "cv_waiting")
    /\ [](\A p \in Producers : pc[p] = "enq_wait" => EnqueueCanProceed)
    /\ [][\A c \in Consumers :
            (pc[c] = "deq_shrink" /\ pc'[c] = "deq_notify" /\ count = 0) =>
                capacity >= 2 /\ capacity' = capacity \div 2]_vars

\* A buffer of initial capacity 1 was filled and doubled by the first
\* enqueue, took a second item without a wait, and the dequeue that has
\* just removed the last item halved a capacity of at least 2.
C21_Witness ==
    /\ \E c \in Consumers : pc[c] = "deq_notify"
    /\ count = 0
    /\ opCap >= 2
    /\ capacity = opCap \div 2
    /\ Len(enqLog) >= 2
    /\ Len(log_file) >= 2
    /\ log_file[1] = 2

====
